---- MODULE Spec2Model ----
(***************************************************************************)
(* Model of the generic field algorithms of ff/src/fields/mod.rs:          *)
(* Field::pow, Field::pow_with_table, SqrtPrecomputation::sqrt,            *)
(* FftField::get_root_of_unity, the bit iterators and batch inversion.     *)
(*                                                                         *)
(* Field elements are the residues 0..p-1 of a small prime field.  A u64   *)
(* limb of an exponent is a natural number; the u64 order handed to        *)
(* get_root_of_unity is a sequence of 8 bytes (least significant first),   *)
(* so that the arithmetic at the top of the u64 range is exact.            *)
(***************************************************************************)
EXTENDS Integers, Sequences, FiniteSets, TLC

VARIABLES F, op, pc, elem, exp, table, vec, vec0, num_cpus, coeff, order, build, ret, ts,
          self, ops, yielded, workers, iter

vars ==
    <<F, op, pc, elem, exp, table, vec, vec0, num_cpus, coeff, order, build, ret, ts,
      self, ops, yielded, workers, iter>>

(***************************************************************************)
(* Bounds of the model.                                                    *)
(***************************************************************************)
\* Largest modulus of the prime fields that are explored.
MaxModulus == 19
\* Largest modulus of the fields in which powers are computed.
MaxPowModulus == 7
\* Largest value of the limb of a one-limb exponent.
MaxWord == 18
\* Largest value of a limb of an exponent of several limbs.
MaxHighWord == 2
\* Largest number of limbs of an exponent.
MaxWords == 2
\* Largest number of entries of a table of powers beyond a limb boundary.
MaxTable == 5
\* Largest of the small orders asked of get_root_of_unity.
MaxOrder == 20
\* Largest modulus of the fields whose vectors are batch-inverted.
MaxBatchModulus == 5
\* Largest length of a vector handed to batch inversion.
MaxVecLen == 4
\* Largest number of threads of the thread pool.
MaxThreads == 2
\* Largest length of a vector whose batch inversion is followed step by step.
MaxStepVecLen == 3
\* Largest number of threads when batch inversion is followed step by step.
MaxStepThreads == 2

\* The width of a limb (u64).
WordBits == 64

(***************************************************************************)
(* Option<T> and the abnormal outcome of a call.                           *)
(***************************************************************************)
Some(val) == [kind |-> "Some", val |-> val]
None == [kind |-> "None", val |-> 0]
Panic == [kind |-> "Panic", val |-> 0]
Unit == [kind |-> "Unit", val |-> 0]
IsSome(o) == o.kind = "Some"
IsNone(o) == o.kind = "None"
IsPanic(o) == o.kind = "Panic"

(***************************************************************************)
(* Field types.  A field type is described by its modulus and by the       *)
(* associated constants the concrete field definition supplies:            *)
(* GENERATOR, TWO_ADICITY, TWO_ADIC_ROOT_OF_UNITY, the optional            *)
(* small-subgroup constants and SQRT_PRECOMP.                              *)
(***************************************************************************)
IsPrime(p) == p > 1 /\ \A d \in 2 .. (p - 1) : p % d # 0

\* a^k modulo p, as the product of a^(k div 2) and a^(k - k div 2).
RECURSIVE ModPow(_, _, _)
ModPow(p, a, k) ==
    IF k = 0 THEN 1 % p
    ELSE IF k = 1 THEN a % p
    ELSE LET h == ModPow(p, a, k \div 2)
         IN  CASE h \in 0 .. (p - 1) -> (h * ModPow(p, a, k - (k \div 2))) % p

\* The multiplicative order of a unit a modulo p.
OrderMod(p, a) ==
    CHOOSE m \in 1 .. (p - 1) :
        /\ ModPow(p, a, m) = 1
        /\ \A j \in 1 .. (m - 1) : ModPow(p, a, j) # 1

\* The largest r with k^r dividing m (m >= 1, k >= 2).
RECURSIVE Valuation(_, _)
Valuation(k, m) == IF m % k # 0 THEN 0 ELSE 1 + Valuation(k, m \div k)

RECURSIVE IntPow(_, _)
IntPow(k, r) == IF r = 0 THEN 1 ELSE k * IntPow(k, r - 1)

\* GENERATOR: the least generator of the multiplicative group.
Generator(p) ==
    CHOOSE g \in 1 .. (p - 1) :
        /\ OrderMod(p, g) = p - 1
        /\ \A h \in 1 .. (g - 1) : OrderMod(p, h) # p - 1

\* TWO_ADICITY: the s with p - 1 = 2^s * t, t odd; Trace is t.
TwoAdicity(p) == Valuation(2, p - 1)
Trace(p) == (p - 1) \div IntPow(2, TwoAdicity(p))

\* SqrtPrecomputation::TonelliShanks, built as its fields are documented.
TonelliShanks(p) ==
    [variant |-> "TonelliShanks",
     two_adicity |-> TwoAdicity(p),
     quadratic_nonresidue_to_trace |-> ModPow(p, Generator(p), Trace(p)),
     trace_of_modulus_minus_one_div_two |-> << (Trace(p) - 1) \div 2 >>,
     modulus_plus_one_div_four |-> << >>]

\* SqrtPrecomputation::Case3Mod4, to be used when the modulus is 3 mod 4.
Case3Mod4(p) ==
    [variant |-> "Case3Mod4",
     two_adicity |-> 0,
     quadratic_nonresidue_to_trace |-> 0,
     trace_of_modulus_minus_one_div_two |-> << >>,
     modulus_plus_one_div_four |-> << (p + 1) \div 4 >>]

\* SQRT_PRECOMP left unbound: Option::None.
NoSqrtPrecomp ==
    [kind |-> "None",
     val |-> [variant |-> "None",
              two_adicity |-> 0,
              quadratic_nonresidue_to_trace |-> 0,
              trace_of_modulus_minus_one_div_two |-> << >>,
              modulus_plus_one_div_four |-> << >>]]

\* The SQRT_PRECOMP values a field type of modulus p may bind.
SqrtPrecomps(p) ==
    {Some(TonelliShanks(p))}
        \cup (IF p % 4 = 3 THEN {Some(Case3Mod4(p))} ELSE {})
        \cup {NoSqrtPrecomp}

\* The pairs (q, K) of a well-formed small-subgroup configuration: q odd,
\* q^K dividing p - 1.
SmallSubgroups(p) ==
    {qk \in (2 .. (p - 1)) \X (1 .. (p - 1)) :
        /\ qk[1] % 2 = 1
        /\ qk[2] <= Valuation(qk[1], p - 1)}

NoSubgroup ==
    [SMALL_SUBGROUP_BASE |-> None,
     SMALL_SUBGROUP_BASE_ADICITY |-> None,
     LARGE_SUBGROUP_ROOT_OF_UNITY |-> None]

\* GENERATOR^((MODULUS-1) / (2^s * q^K))
LargeRoot(p, q, K) ==
    ModPow(p, Generator(p),
           (p - 1) \div (IntPow(2, TwoAdicity(p)) * IntPow(q, K)))

LargeSubgroup(p, q, K) ==
    [SMALL_SUBGROUP_BASE |-> Some(q),
     SMALL_SUBGROUP_BASE_ADICITY |-> Some(K),
     LARGE_SUBGROUP_ROOT_OF_UNITY |-> Some(LargeRoot(p, q, K))]

\* Combinations of the three optional constants that the trait accepts but
\* that describe no subgroup.
MalformedSubgroups(p) ==
    {[SMALL_SUBGROUP_BASE |-> None,
      SMALL_SUBGROUP_BASE_ADICITY |-> Some(1),
      LARGE_SUBGROUP_ROOT_OF_UNITY |-> Some(Generator(p))],
     [SMALL_SUBGROUP_BASE |-> Some(3),
      SMALL_SUBGROUP_BASE_ADICITY |-> None,
      LARGE_SUBGROUP_ROOT_OF_UNITY |-> Some(Generator(p))],
     [SMALL_SUBGROUP_BASE |-> Some(2),
      SMALL_SUBGROUP_BASE_ADICITY |-> Some(1),
      LARGE_SUBGROUP_ROOT_OF_UNITY |-> Some(Generator(p))]}

FieldType(p, sqrt_precomp, subgroup) ==
    [p |-> p,
     GENERATOR |-> Generator(p),
     TWO_ADICITY |-> TwoAdicity(p),
     TWO_ADIC_ROOT_OF_UNITY |-> ModPow(p, Generator(p), Trace(p)),
     SMALL_SUBGROUP_BASE |-> subgroup.SMALL_SUBGROUP_BASE,
     SMALL_SUBGROUP_BASE_ADICITY |-> subgroup.SMALL_SUBGROUP_BASE_ADICITY,
     LARGE_SUBGROUP_ROOT_OF_UNITY |-> subgroup.LARGE_SUBGROUP_ROOT_OF_UNITY,
     SQRT_PRECOMP |-> sqrt_precomp,
     INVERSE_IS_FAST |-> FALSE]

Moduli == {p \in 3 .. MaxModulus : IsPrime(p)}

\* Field types with the default (absent) subgroup constants.
PlainFields ==
    {FieldType(p, Some(TonelliShanks(p)), NoSubgroup) :
        p \in {q \in Moduli : q <= MaxPowModulus}}

(***************************************************************************)
(* The build of the program: whether integer overflow and debug            *)
(* assertions are checked, and the width of usize.                         *)
(***************************************************************************)
Builds ==
    [overflow_checks : BOOLEAN, debug_assertions : BOOLEAN, usize_bits : {32, 64},
     parallel : BOOLEAN]

ReleaseBuild ==
    [overflow_checks |-> FALSE, debug_assertions |-> FALSE, usize_bits |-> 64,
     parallel |-> FALSE]

DebugBuild ==
    [overflow_checks |-> TRUE, debug_assertions |-> TRUE, usize_bits |-> 64,
     parallel |-> FALSE]

(***************************************************************************)
(* The field: residues modulo F.p.                                         *)
(***************************************************************************)
Elems == 0 .. (F.p - 1)
zero == 0
one == 1
is_zero(a) == a = 0
is_one(a) == a = 1
mul(a, b) == (a * b) % F.p
square(a) == (a * a) % F.p
\* Field::inverse: None for zero, else the element whose product with a is one.
inverse(a) ==
    IF a = 0 THEN None
    ELSE Some(CHOOSE c \in 1 .. (F.p - 1) : (a * c) % F.p = 1)

\* a^k as a product of k factors a (the mathematical power, the reference
\* the exponentiation algorithms are compared with).
NaivePow(a, k) == ModPow(F.p, a, k)

\* a squared k times, i.e. a^(2^k): k squarings, run as two halves.
RECURSIVE SquareTimes(_, _)
SquareTimes(a, k) ==
    IF k = 0 THEN a
    ELSE IF k = 1 THEN square(a)
    ELSE LET first == SquareTimes(a, k \div 2)
         IN  CASE first \in 0 .. (F.p - 1) -> SquareTimes(first, k - (k \div 2))

(***************************************************************************)
(* Limbs and the bit iterators.                                            *)
(***************************************************************************)
\* limb >> bit
RECURSIVE Shr(_, _)
Shr(limb, bit) ==
    IF bit = 0 \/ limb = 0 THEN limb ELSE Shr(limb \div 2, bit - 1)

\* s[part] & (1 << bit) > 0, for the 0-based bit index n of the limb array s.
BitAt(s, n) ==
    LET part == n \div WordBits
        bit == n - (WordBits * part)
    IN  Shr(s[part + 1], bit) % 2 = 1

\* 64 - limb.leading_zeros(): the number of significant bits of a limb.
RECURSIVE SignificantBits(_)
SignificantBits(limb) ==
    IF limb = 0 THEN 0 ELSE 1 + SignificantBits(limb \div 2)

Reverse(s) == [i \in 1 .. Len(s) |-> s[Len(s) + 1 - i]]

\* BitIteratorBE::new(s) collected: 64 * len booleans, most significant first.
BitIteratorBE_new(s) ==
    LET len == Len(s) * WordBits
    IN  [i \in 1 .. len |-> BitAt(s, len - i)]

\* Iterator::skip_while(|b| !b): the bits from the first true one on.
skip_while_false(bits) ==
    LET set == {i \in 1 .. Len(bits) : bits[i]}
    IN  IF set = {} THEN << >>
        ELSE LET first == CHOOSE i \in set : \A j \in set : i <= j
             IN  [i \in 1 .. (Len(bits) - first + 1) |-> bits[first + i - 1]]

without_leading_zeros(s) == skip_while_false(BitIteratorBE_new(s))

\* BitIteratorLE::new(s) collected: 64 * len booleans, least significant first.
BitIteratorLE_new(s) ==
    [i \in 1 .. (Len(s) * WordBits) |-> BitAt(s, i - 1)]

\* The loop of without_trailing_zeros over the limbs, from the last one (index
\* i, 1-based here) downwards; ftz is first_trailing_zero.
RECURSIVE first_trailing_zero_loop(_, _, _)
first_trailing_zero_loop(s, i, ftz) ==
    IF i = 0 THEN ftz
    ELSE LET next == (i - 1) * WordBits + SignificantBits(s[i])
         IN  IF s[i] # 0 THEN next
             ELSE first_trailing_zero_loop(s, i - 1, next)

first_trailing_zero(s) == first_trailing_zero_loop(s, Len(s), 0)

\* without_trailing_zeros stopping one bit early.
without_trailing_zeros_short(s) ==
    [i \in 1 .. (IF first_trailing_zero(s) = 0 THEN 0 ELSE first_trailing_zero(s) - 1)
        |-> BitAt(s, i - 1)]

\* BitIteratorLE::without_trailing_zeros(s) collected: max_len booleans.
without_trailing_zeros(s) ==
    [i \in 1 .. first_trailing_zero(s) |-> BitAt(s, i - 1)]

(***************************************************************************)
(* The bit iterators call by call: the fields s, n and max_len of an       *)
(* iterator, and skipping for the flag of the SkipWhile around a           *)
(* BitIteratorBE.                                                          *)
(***************************************************************************)
NoIter == [kind |-> "none", s |-> << >>, n |-> 0, max_len |-> 0, skipping |-> FALSE]

\* BitIteratorBE::new
be_new(s) ==
    [kind |-> "BE", s |-> s, n |-> Len(s) * WordBits, max_len |-> 0,
     skipping |-> FALSE]

\* BitIteratorBE::without_leading_zeros
be_without_leading_zeros(s) == [be_new(s) EXCEPT !.skipping = TRUE]

\* BitIteratorLE::new
le_new(s) ==
    [kind |-> "LE", s |-> s, n |-> 0, max_len |-> Len(s) * WordBits,
     skipping |-> FALSE]

\* without_trailing_zeros looking at the last limb only.
le_without_trailing_zeros_last_limb(s) ==
    [le_new(s) EXCEPT !.max_len =
        IF s = << >> THEN 0
        ELSE (Len(s) - 1) * WordBits + SignificantBits(s[Len(s)])]

\* BitIteratorLE::without_trailing_zeros
le_without_trailing_zeros(s) == [le_new(s) EXCEPT !.max_len = first_trailing_zero(s)]

\* be_next reading the bit above the one it should.
be_next_off_by_one(it) ==
    IF it.n = 0 THEN [it |-> it, item |-> None]
    ELSE [it |-> [it EXCEPT !.n = it.n - 1],
          item |-> Some(it.n < Len(it.s) * WordBits /\ BitAt(it.s, it.n))]

\* BitIteratorBE::next
be_next(it) ==
    IF it.n = 0 THEN [it |-> it, item |-> None]
    ELSE [it |-> [it EXCEPT !.n = it.n - 1], item |-> Some(BitAt(it.s, it.n - 1))]

\* SkipWhile::next with the predicate |b| !b: until a bit has been yielded,
\* the false bits the inner iterator yields are dropped.
skip_while_next(it) ==
    LET set == {k \in 0 .. (it.n - 1) : BitAt(it.s, k)}
    IN  IF ~it.skipping THEN be_next(it)
        ELSE IF set = {} THEN [it |-> [it EXCEPT !.n = 0], item |-> None]
        ELSE [it |-> [it EXCEPT !.n = CHOOSE k \in set : \A j \in set : j <= k,
                                !.skipping = FALSE],
              item |-> Some(TRUE)]

\* le_next counting the bits of a limb from its top.
le_next_from_top(it) ==
    IF it.n = it.max_len THEN [it |-> it, item |-> None]
    ELSE [it |-> [it EXCEPT !.n = it.n + 1],
          item |-> Some(BitAt(it.s, WordBits * (it.n \div WordBits)
                                      + (WordBits - 1 - (it.n % WordBits))))]

\* BitIteratorLE::next
le_next(it) ==
    IF it.n = it.max_len THEN [it |-> it, item |-> None]
    ELSE [it |-> [it EXCEPT !.n = it.n + 1], item |-> Some(BitAt(it.s, it.n))]

\* Iterator::next of the iterator it.
iter_next(it) == IF it.kind = "BE" THEN skip_while_next(it) ELSE le_next(it)

(***************************************************************************)
(* Field::pow and Field::pow_with_table.                                   *)
(***************************************************************************)
\* pow_step with the multiplication done before the squaring.
pow_step_mul_first(base, res, bit) ==
    IF bit THEN square(mul(res, base)) ELSE square(res)

\* One iteration of the loop of pow: res.square_in_place(); if i { res *= self }.
pow_step(base, res, bit) ==
    IF bit THEN mul(square(res), base) ELSE square(res)

\* The loop of pow over the bits at positions lo..hi, entered with the
\* accumulator res.  The range is run as its two halves in order, the
\* accumulator being a field element in between; this keeps the evaluation
\* shallow.
RECURSIVE pow_loop(_, _, _, _, _)
pow_loop(base, bits, lo, hi, res) ==
    IF lo > hi THEN res
    ELSE IF lo = hi THEN pow_step(base, res, bits[lo])
    ELSE LET mid == (lo + hi) \div 2
             first == pow_loop(base, bits, lo, mid, res)
         IN  CASE first \in Elems -> pow_loop(base, bits, mid + 1, hi, first)

pow(base, e) ==
    LET bits == without_leading_zeros(e)
    IN  pow_loop(base, bits, 1, Len(bits), one)

\* pow_with_table_step reading a missing power as the multiplicative identity.
pow_with_table_step_lenient(powers_of_2, res, i, bit) ==
    IF IsNone(res) \/ ~bit THEN res
    ELSE IF i > Len(powers_of_2) THEN res
    ELSE Some(mul(res.val, powers_of_2[i]))

\* One iteration of the loop of pow_with_table at the 1-based position i (the
\* index `pow` of the code is i - 1); res is None once a power was missing.
pow_with_table_step(powers_of_2, res, i, bit) ==
    IF IsNone(res) \/ ~bit THEN res
    ELSE IF i > Len(powers_of_2) THEN None
    ELSE Some(mul(res.val, powers_of_2[i]))

\* The loop of pow_with_table over the positions lo..hi, as for pow.
RECURSIVE pow_with_table_loop(_, _, _, _, _)
pow_with_table_loop(powers_of_2, bits, lo, hi, res) ==
    IF lo > hi THEN res
    ELSE IF lo = hi THEN pow_with_table_step(powers_of_2, res, lo, bits[lo])
    ELSE LET mid == (lo + hi) \div 2
             first == pow_with_table_loop(powers_of_2, bits, lo, mid, res)
         IN  IF IsNone(first) THEN None
             ELSE pow_with_table_loop(powers_of_2, bits, mid + 1, hi, first)

pow_with_table(powers_of_2, e) ==
    LET bits == without_trailing_zeros(e)
    IN  pow_with_table_loop(powers_of_2, bits, 1, Len(bits), Some(one))

(***************************************************************************)
(* CyclotomicMultSubgroup::cyclotomic_exp and exp_loop.  The counters of   *)
(* ops record the field operations a call performs.                        *)
(***************************************************************************)
NoOps ==
    [inversions |-> 0, squarings |-> 0, multiplications |-> 0, inverted |-> << >>]

\* The default bodies: cyclotomic_square_in_place is square_in_place and
\* cyclotomic_inverse is inverse.
cyclotomic_square(a) == square(a)
cyclotomic_inverse(a) == inverse(a)

\* One digit of the non-adjacent form, at the 1-based position i of the bits
\* (least significant first) with the carry of the lower positions: 0 for
\* an even value, and for an odd value 2 - (value mod 4), in which case 1 is
\* taken from the value or, for -1, added to it.
naf_step(nbits, st, i) ==
    LET bit(j) == j <= Len(nbits) /\ nbits[j]
        x == (IF bit(i) THEN 1 ELSE 0) + st.carry
    IN  IF x % 2 = 0
        THEN [carry |-> x \div 2, digits |-> Append(st.digits, 0)]
        ELSE IF bit(i + 1)
        THEN [carry |-> 1, digits |-> Append(st.digits, -1)]
        ELSE [carry |-> 0, digits |-> Append(st.digits, 1)]

\* The digits of positions lo..hi, the range run as its two halves in order.
RECURSIVE naf_loop(_, _, _, _)
naf_loop(nbits, lo, hi, st) ==
    IF lo > hi THEN st
    ELSE IF lo = hi THEN naf_step(nbits, st, lo)
    ELSE LET mid == (lo + hi) \div 2
             first == naf_loop(nbits, lo, mid, st)
         IN  IF first.carry \in {0, 1} THEN naf_loop(nbits, mid + 1, hi, first)
             ELSE first

\* find_naf: the non-adjacent form of the exponent, least significant digit
\* first, ending with its most significant nonzero digit.
find_naf(e) ==
    LET nbits == BitIteratorLE_new(e)
        all == naf_loop(nbits, 1, Len(nbits) + 1, [carry |-> 0, digits |-> << >>]).digits
        set == {i \in 1 .. Len(all) : all[i] # 0}
    IN  IF set = {} THEN << >>
        ELSE SubSeq(all, 1, CHOOSE i \in set : \A j \in set : j <= i)

\* exp_loop_step multiplying before it squares.
exp_loop_step_mul_first(f, self_inverse, fast, st, value) ==
    LET factor == IF value > 0 THEN f ELSE IF value < 0 /\ fast THEN self_inverse ELSE one
        res1 == mul(st.res, factor)
    IN  [res |-> IF st.found_nonzero THEN cyclotomic_square(res1) ELSE res1,
         found_nonzero |-> st.found_nonzero \/ value # 0,
         squarings |-> st.squarings + (IF st.found_nonzero THEN 1 ELSE 0),
         multiplications |-> st.multiplications + (IF value # 0 THEN 1 ELSE 0)]

\* One iteration of the loop of exp_loop for the digit value.
exp_loop_step(f, self_inverse, fast, st, value) ==
    LET res1 == IF st.found_nonzero THEN cyclotomic_square(st.res) ELSE st.res
        multiplies == value > 0 \/ (value < 0 /\ fast)
    IN  [res |-> IF value > 0 THEN mul(res1, f)
                 ELSE IF value < 0 /\ fast THEN mul(res1, self_inverse)
                 ELSE res1,
         found_nonzero |-> st.found_nonzero \/ value # 0,
         squarings |-> st.squarings + (IF st.found_nonzero THEN 1 ELSE 0),
         multiplications |-> st.multiplications + (IF multiplies THEN 1 ELSE 0)]

\* The loop of exp_loop over the digits e[lo..hi].
RECURSIVE exp_loop_range(_, _, _, _, _, _, _)
exp_loop_range(f, self_inverse, fast, e, lo, hi, st) ==
    IF lo > hi THEN st
    ELSE IF lo = hi THEN exp_loop_step(f, self_inverse, fast, st, e[lo])
    ELSE LET mid == (lo + hi) \div 2
             first == exp_loop_range(f, self_inverse, fast, e, lo, mid, st)
         IN  IF first.res \in Elems
             THEN exp_loop_range(f, self_inverse, fast, e, mid + 1, hi, first)
             ELSE first

\* exp_loop(f, e): the value left in f, whether the unwrap of the inverse
\* panicked, and the operations performed.
exp_loop(f, e, fast) ==
    LET inv == IF fast THEN cyclotomic_inverse(f) ELSE Some(one)
        st == exp_loop_range(f, inv.val, fast, e, 1, Len(e),
                             [res |-> one, found_nonzero |-> FALSE,
                              squarings |-> 0, multiplications |-> 0])
        inverted == IF fast THEN << f >> ELSE << >>
    IN  IF IsNone(inv)
        THEN [f |-> f, panicked |-> TRUE,
              ops |-> [NoOps EXCEPT !.inversions = 1, !.inverted = inverted]]
        ELSE [f |-> st.res, panicked |-> FALSE,
              ops |-> [inversions |-> Len(inverted),
                       squarings |-> st.squarings,
                       multiplications |-> st.multiplications,
                       inverted |-> inverted]]

\* cyclotomic_exp_in_place entering the loop for a zero element too.
cyclotomic_exp_in_place_any(f, e, fast) ==
    IF fast THEN exp_loop(f, Reverse(find_naf(e)), fast)
    ELSE LET be == without_leading_zeros(e)
         IN  exp_loop(f, [i \in 1 .. Len(be) |-> IF be[i] THEN 1 ELSE 0], fast)

\* cyclotomic_exp_in_place(self, e) for a field with INVERSE_IS_FAST = fast.
cyclotomic_exp_in_place(f, e, fast) ==
    IF is_zero(f) THEN [f |-> f, panicked |-> FALSE, ops |-> NoOps]
    ELSE IF fast THEN exp_loop(f, Reverse(find_naf(e)), fast)
    ELSE LET be == without_leading_zeros(e)
         IN  exp_loop(f, [i \in 1 .. Len(be) |-> IF be[i] THEN 1 ELSE 0], fast)

(***************************************************************************)
(* SqrtPrecomputation::sqrt and Field::sqrt.                               *)
(***************************************************************************)
\* Field::legendre
legendre(a) ==
    IF a = 0 THEN "Zero"
    ELSE IF \E r \in 1 .. (F.p - 1) : (r * r) % F.p = a THEN "QuadraticResidue"
    ELSE "QuadraticNonResidue"

\* The Case3Mod4 arm accepting the power without checking its square.
sqrt_case3mod4_unchecked(d, y) == Some(pow(y, d.modulus_plus_one_div_four))

\* The Case3Mod4 arm of SqrtPrecomputation::sqrt.
sqrt_case3mod4(d, y) ==
    LET result == pow(y, d.modulus_plus_one_div_four)
    IN  IF square(result) = y THEN Some(result) ELSE None

\* ts_begin with x = w instead of x = w * elem.
ts_begin_x_is_w(d, y) ==
    LET w0 == pow(y, d.trace_of_modulus_minus_one_div_two)
    IN  [z |-> d.quadratic_nonresidue_to_trace,
         w |-> w0,
         x |-> w0,
         b |-> mul(w0, w0),
         v |-> d.two_adicity,
         k |-> 0,
         b2k |-> 0,
         iterations |-> 0]

\* The locals (z, w, x, b, v) of the TonelliShanks arm when the outer loop is
\* first reached.
ts_begin(d, y) ==
    LET w0 == pow(y, d.trace_of_modulus_minus_one_div_two)
        x0 == mul(w0, y)
    IN  [z |-> d.quadratic_nonresidue_to_trace,
         w |-> w0,
         x |-> x0,
         b |-> mul(x0, w0),
         v |-> d.two_adicity,
         k |-> 0,
         b2k |-> 0,
         iterations |-> 0]

\* ts_update multiplying b by w instead of z.
ts_update_wrong_b(t) ==
    LET j == t.v - t.k
        w1 == SquareTimes(t.z, IF j > 1 THEN j - 1 ELSE 0)
        z1 == square(w1)
    IN  [t EXCEPT !.w = w1, !.z = z1, !.b = mul(t.b, w1), !.x = mul(t.x, w1),
                  !.v = t.k]

\* ts_update leaving v as it was.
ts_update_keeps_v(t) ==
    LET j == t.v - t.k
        w1 == SquareTimes(t.z, IF j > 1 THEN j - 1 ELSE 0)
        z1 == square(w1)
    IN  [t EXCEPT !.w = w1, !.z = z1, !.b = mul(t.b, z1), !.x = mul(t.x, w1)]

\* The tail of one outer iteration, after the inner loop has found k < v:
\* j = v - k; w = z squared j - 1 times; z = w^2; b *= z; x *= w; v = k.
ts_update(t) ==
    LET j == t.v - t.k
        w1 == SquareTimes(t.z, IF j > 1 THEN j - 1 ELSE 0)
        z1 == square(w1)
    IN  [t EXCEPT !.w = w1, !.z = z1, !.b = mul(t.b, z1), !.x = mul(t.x, w1),
                  !.v = t.k]

\* The result once the outer loop has ended: x if it squares to the input;
\* otherwise None, after the debug assertion that the input is no residue.
ts_finish(t, y, bld) ==
    IF square(t.x) = y THEN Some(t.x)
    ELSE IF bld.debug_assertions /\ legendre(y) = "QuadraticResidue" THEN Panic
    ELSE None

(***************************************************************************)
(* Batch inversion.                                                        *)
(***************************************************************************)
\* First pass over v[1..i]: tmp is the product of the nonzero entries and
\* prod the sequence of the running products [a, ab, abc, ...].
RECURSIVE first_pass(_, _)
first_pass(v, i) ==
    IF i = 0 THEN [tmp |-> one, prod |-> << >>]
    ELSE LET r == first_pass(v, i - 1)
             t == mul(r.tmp, v[i])
         IN  IF is_zero(v[i]) THEN r
             ELSE [tmp |-> t, prod |-> Append(r.prod, t)]

\* The partners without dropping the last running product.
partners_no_skip(prod) == Reverse(prod) \o << one >>

\* prod.into_iter().rev().skip(1).chain(Some(F::one()))
partners(prod) ==
    (IF prod = << >> THEN << >> ELSE Tail(Reverse(prod))) \o << one >>

\* Second pass, backwards over v[1..i]: the m-th nonzero entry met is
\* paired with s[m]; f := tmp * s[m] and tmp := tmp * f.  The zip ends with
\* the shorter of the two iterators.
RECURSIVE second_pass(_, _, _, _, _)
second_pass(v, s, i, m, tmp) ==
    IF i = 0 \/ m > Len(s) THEN v
    ELSE IF is_zero(v[i]) THEN second_pass(v, s, i - 1, m, tmp)
    ELSE second_pass([v EXCEPT ![i] = mul(tmp, s[m])], s, i - 1, m + 1,
                     mul(tmp, v[i]))

\* serial_batch_inversion_and_mul: the vector left in v, or a panic when the
\* inversion of the product is unwrapped without a value.
serial_batch_inversion_and_mul(v, c) ==
    LET fp == first_pass(v, Len(v))
        inv == inverse(fp.tmp)
    IN  IF IsNone(inv) THEN Panic
        ELSE Some(second_pass(v, partners(fp.prod), Len(v), 1, mul(inv.val, c)))

Max(a, b) == IF a >= b THEN a ELSE b

\* The chunks of full size only, the remainder of the vector left out.
par_chunks_exact_mut(len, size) ==
    [j \in 1 .. (len \div size) |-> [lo |-> (j - 1) * size + 1, hi |-> j * size]]

\* v.par_chunks_mut(size): the index ranges of the chunks.
par_chunks_mut(len, size) ==
    [j \in 1 .. ((len + size - 1) \div size) |->
        [lo |-> (j - 1) * size + 1,
         hi |-> IF j * size < len THEN j * size ELSE len]]

\* v.par_chunks_mut(size).for_each(|chunk| serial_batch_inversion_and_mul(
\* chunk, coeff)): every chunk goes through the serial algorithm, and an
\* entry outside every chunk is left as it is.
RECURSIVE for_each_chunk(_, _, _, _)
for_each_chunk(v, c, chunks, j) ==
    IF j > Len(chunks)
    THEN Some(SubSeq(v, IF chunks = << >> THEN 1 ELSE chunks[Len(chunks)].hi + 1,
                     Len(v)))
    ELSE LET first == serial_batch_inversion_and_mul(
                          SubSeq(v, chunks[j].lo, chunks[j].hi), c)
         IN  IF IsPanic(first) THEN Panic
             ELSE LET rest == for_each_chunk(v, c, chunks, j + 1)
                  IN  IF IsPanic(rest) THEN Panic
                      ELSE Some(first.val \o rest.val)

\* The vector after par_chunks_mut(size).for_each(..), or the panic of a chunk.
chunked_batch_inversion_and_mul(v, c, size) ==
    for_each_chunk(v, c, par_chunks_mut(Len(v), size), 1)

\* batch_inversion_and_mul of the feature "parallel": the chunks have
\* max(len / threads, 1) entries.
parallel_batch_inversion_and_mul(v, c, num_cpus_available) ==
    chunked_batch_inversion_and_mul(v, c, Max(Len(v) \div num_cpus_available, 1))

\* batch_inversion_and_mul, as the build selects it.
batch_inversion_and_mul(v, c, bld, num_cpus_available) ==
    IF bld.parallel
    THEN parallel_batch_inversion_and_mul(v, c, num_cpus_available)
    ELSE serial_batch_inversion_and_mul(v, c)

batch_inversion(v, bld, num_cpus_available) ==
    batch_inversion_and_mul(v, one, bld, num_cpus_available)

(***************************************************************************)
(* Batch inversion step by step.  A worker runs serial_batch_inversion_-    *)
(* and_mul on the chunk v[lo..hi]: the calling thread on the whole vector, *)
(* or one task of par_chunks_mut(..).for_each on each chunk.  A step is    *)
(* one iteration of a pass, or the inversion between the passes.           *)
(***************************************************************************)
\* A worker about to start the first pass on v[lo..hi].
new_worker(lo, hi) ==
    [lo |-> lo, hi |-> hi, pc |-> "first", i |-> lo, m |-> 1,
     tmp |-> one, prod |-> << >>, s |-> << >>,
     inversions |-> 0, inverted |-> << >>, reads |-> {}, writes |-> {}]

\* new_workers with every chunk but the last running one entry into the next.
new_workers_overlapping(len, bld, num_cpus_available) ==
    LET chunks == par_chunks_mut(len, Max(len \div num_cpus_available, 1))
    IN  IF bld.parallel
        THEN [j \in 1 .. Len(chunks) |->
                new_worker(chunks[j].lo,
                           IF j < Len(chunks) THEN chunks[j].hi + 1 ELSE chunks[j].hi)]
        ELSE << new_worker(1, len) >>

\* The workers of a call: one for the whole vector, or one for each chunk.
new_workers(len, bld, num_cpus_available) ==
    IF bld.parallel
    THEN LET chunks == par_chunks_mut(len, Max(len \div num_cpus_available, 1))
         IN  [j \in 1 .. Len(chunks) |-> new_worker(chunks[j].lo, chunks[j].hi)]
    ELSE << new_worker(1, len) >>

\* first_pass_step without the filter: a zero entry is multiplied in.
first_pass_step_unfiltered(w, v) ==
    LET t == mul(w.tmp, v[w.i])
    IN  [w EXCEPT !.i = w.i + 1,
                  !.reads = w.reads \cup {w.i},
                  !.tmp = t,
                  !.prod = Append(w.prod, t)]

\* One iteration of the first pass: for f in v.iter().filter(|f| !f.is_zero()).
first_pass_step(w, v) ==
    LET f == v[w.i]
        t == mul(w.tmp, f)
    IN  [w EXCEPT !.i = w.i + 1,
                  !.reads = w.reads \cup {w.i},
                  !.tmp = IF is_zero(f) THEN w.tmp ELSE t,
                  !.prod = IF is_zero(f) THEN w.prod ELSE Append(w.prod, t)]

\* invert_step inverting once for every entry of the chunk.
invert_step_each(w, c) ==
    LET inv == inverse(w.tmp)
        n == w.hi - w.lo + 1
    IN  [w EXCEPT !.inversions = w.inversions + n,
                  !.inverted = w.inverted \o [k \in 1 .. n |-> w.tmp],
                  !.pc = IF IsNone(inv) THEN "panicked" ELSE "second",
                  !.tmp = IF IsNone(inv) THEN w.tmp ELSE mul(inv.val, c),
                  !.s = partners(w.prod),
                  !.i = w.hi]

\* tmp = tmp.inverse().unwrap(); tmp *= coeff; and the iterator that the
\* second pass zips with.
invert_step(w, c) ==
    LET inv == inverse(w.tmp)
    IN  [w EXCEPT !.inversions = w.inversions + 1,
                  !.inverted = Append(w.inverted, w.tmp),
                  !.pc = IF IsNone(inv) THEN "panicked" ELSE "second",
                  !.tmp = IF IsNone(inv) THEN w.tmp ELSE mul(inv.val, c),
                  !.s = partners(w.prod),
                  !.i = w.hi]

\* One iteration of the second pass at v[w.i]: a zero entry is passed over;
\* a nonzero one is paired with s[m], or ends the zip when s is used up.
second_pass_step(w, v) ==
    LET f == v[w.i]
        read == [w EXCEPT !.reads = w.reads \cup {w.i}]
    IN  IF is_zero(f) THEN [w |-> [read EXCEPT !.i = w.i - 1], v |-> v]
        ELSE IF w.m > Len(w.s) THEN [w |-> [read EXCEPT !.pc = "done"], v |-> v]
        ELSE [w |-> [read EXCEPT !.i = w.i - 1,
                                 !.m = w.m + 1,
                                 !.tmp = mul(w.tmp, f),
                                 !.writes = w.writes \cup {w.i}],
              v |-> [v EXCEPT ![w.i] = mul(w.tmp, w.s[w.m])]]

\* The next step of the worker w on the vector v with the coefficient c.
worker_step(w, v, c) ==
    IF w.pc = "first"
    THEN IF w.i <= w.hi THEN [w |-> first_pass_step(w, v), v |-> v]
         ELSE [w |-> invert_step(w, c), v |-> v]
    ELSE IF w.i >= w.lo THEN second_pass_step(w, v)
    ELSE [w |-> [w EXCEPT !.pc = "done"], v |-> v]

(***************************************************************************)
(* u64 values: 8 bytes, least significant first (index 1), so that values  *)
(* up to 2^64 - 1 and the overflow of u64 arithmetic are exact.            *)
(***************************************************************************)
U64Len == WordBits \div 8

\* The u64 of a natural number k < 2^31.
U64(k) == [i \in 1 .. U64Len |-> Shr(k, 8 * (i - 1)) % 256]

\* 2^k for k in 0..63.
U64Pow2(k) ==
    [i \in 1 .. U64Len |-> IF i = (k \div 8) + 1 THEN IntPow(2, k % 8) ELSE 0]

\* 2^j + 2^k for j < k in 0..63.
U64Pow2Sum(j, k) == [i \in 1 .. U64Len |-> U64Pow2(j)[i] + U64Pow2(k)[i]]

\* u64::MAX
U64Max == [i \in 1 .. U64Len |-> 255]

\* The natural number of a u64 below 2^24.
U64Small(n) == n[1] + 256 * n[2] + 65536 * n[3]
U64IsSmall(n) == \A i \in 4 .. U64Len : n[i] = 0

\* 64 - n.leading_zeros(): the number of significant bits of n.
U64BitLen(n) ==
    LET set == {i \in 1 .. U64Len : n[i] # 0}
    IN  IF set = {} THEN 0
        ELSE LET top == CHOOSE i \in set : \A j \in set : j <= i
             IN  8 * (top - 1) + SignificantBits(n[top])

\* n.is_power_of_two()
U64IsPowerOfTwo(n) == n # U64(0) /\ n = U64Pow2(U64BitLen(n) - 1)

\* The remainder of the bytes i..8 of n (the most significant ones) by d.
RECURSIVE U64RemFrom(_, _, _)
U64RemFrom(n, d, i) ==
    IF i > U64Len THEN 0 ELSE (U64RemFrom(n, d, i + 1) * 256 + n[i]) % d

\* n / d and n % d for a divisor 0 < d < 2^23, by long division.
U64Div(n, d) ==
    [i \in 1 .. U64Len |-> (U64RemFrom(n, d, i + 1) * 256 + n[i]) \div d]
U64Rem(n, d) == U64RemFrom(n, d, 1)

\* The sum of the byte products a[i] * b[j] of column k = i + j - 1.
U64MulColumn(a, b, k) ==
    LET term(i) == IF k + 1 - i \in 1 .. U64Len THEN a[i] * b[k + 1 - i] ELSE 0
    IN  term(1) + term(2) + term(3) + term(4) + term(5) + term(6) + term(7) + term(8)

\* The bytes k..16 of the full product a * b, given the carry into byte k.
RECURSIVE U64MulBytes(_, _, _, _)
U64MulBytes(a, b, k, carry) ==
    IF k > 2 * U64Len THEN << >>
    ELSE LET sum == U64MulColumn(a, b, k) + carry
         IN  << sum % 256 >> \o U64MulBytes(a, b, k + 1, sum \div 256)

\* a.wrapping_mul(b) and whether a * b overflows u64.
U64WrappingMul(a, b) == SubSeq(U64MulBytes(a, b, 1, 0), 1, U64Len)
U64MulOverflows(a, b) ==
    LET full == U64MulBytes(a, b, 1, 0)
    IN  \E k \in (U64Len + 1) .. (2 * U64Len) : full[k] # 0

\* a.checked_mul(b)
U64CheckedMul(a, b) ==
    IF U64MulOverflows(a, b) THEN None ELSE Some(U64WrappingMul(a, b))

\* base.checked_pow(e): None when base^e overflows u64.  The e factors are
\* multiplied as two halves.
RECURSIVE U64CheckedPow(_, _)
U64CheckedPow(base, e) ==
    IF e = 0 THEN Some(U64(1))
    ELSE IF e = 1 THEN Some(base)
    ELSE LET first == U64CheckedPow(base, e \div 2)
         IN  IF IsNone(first) THEN None
             ELSE LET second == U64CheckedPow(base, e - (e \div 2))
                  IN  IF IsNone(second) THEN None
                      ELSE U64CheckedMul(first.val, second.val)

\* u64::next_power_of_two: the smallest power of two >= n.  When that is
\* 2^64 the addition in it overflows: a panic under overflow checks, the
\* wrapped value 0 without them.
next_power_of_two(n, overflow_checks) ==
    IF n = U64(0) THEN Some(U64(1))
    ELSE IF U64IsPowerOfTwo(n) THEN Some(n)
    ELSE IF U64BitLen(n) = WordBits
         THEN IF overflow_checks THEN Panic ELSE Some(U64(0))
    ELSE Some(U64Pow2(U64BitLen(n)))

\* usize::try_from(size): an error when size does not fit the usize of the
\* target.
usize_try_from(size, usize_bits) ==
    IF U64BitLen(size) > usize_bits THEN None ELSE Some(size)

\* ark_std::log2(x): the ceiling of the binary logarithm, 0 for x = 0.
log2(x) ==
    IF x = U64(0) THEN 0
    ELSE IF U64IsPowerOfTwo(x) THEN U64BitLen(x) - 1
    ELSE U64BitLen(x)

(***************************************************************************)
(* utils::k_adicity(k, n): the exponent of the largest power of k that     *)
(* divides n, found by dividing n by k while it is above 1 and divisible.  *)
(***************************************************************************)
k_adicity_step(k, st) ==
    IF st.done THEN st
    ELSE IF st.n = U64(0) \/ st.n = U64(1) THEN [st EXCEPT !.done = TRUE]
    ELSE IF U64Rem(st.n, k) = 0
         THEN [n |-> U64Div(st.n, k), r |-> st.r + 1, done |-> FALSE]
    ELSE [st EXCEPT !.done = TRUE]

\* c iterations of the loop, run as two halves.
RECURSIVE k_adicity_loop(_, _, _)
k_adicity_loop(k, st, c) ==
    IF c = 0 THEN st
    ELSE IF c = 1 THEN k_adicity_step(k, st)
    ELSE LET first == k_adicity_loop(k, st, c \div 2)
         IN  IF first.done THEN first
             ELSE k_adicity_loop(k, first, c - (c \div 2))

\* A u64 is divided by k >= 2 at most 63 times before it is at most 1.
k_adicity(k, n) ==
    k_adicity_loop(k, [n |-> n, r |-> 0, done |-> FALSE], WordBits + 1).r

(***************************************************************************)
(* FftField::get_root_of_unity(n)                                          *)
(***************************************************************************)
\* pow_times raising to the q-th power once too often.
RECURSIVE pow_times_once_more(_, _, _)
pow_times_once_more(omega, q, c) ==
    IF c < 0 THEN omega ELSE pow_times_once_more(pow(omega, << q >>), q, c - 1)

\* for _ in from..to { omega = omega.pow(&[q]) }
RECURSIVE pow_times(_, _, _)
pow_times(omega, q, c) ==
    IF c <= 0 THEN omega ELSE pow_times(pow(omega, << q >>), q, c - 1)

\* The branch taken when LARGE_SUBGROUP_ROOT_OF_UNITY is set.
get_root_of_unity_large(n, bld) ==
    IF IsNone(F.SMALL_SUBGROUP_BASE) THEN Panic
    ELSE IF IsNone(F.SMALL_SUBGROUP_BASE_ADICITY) THEN Panic
    ELSE
    LET q == F.SMALL_SUBGROUP_BASE.val
        small_subgroup_base_adicity == F.SMALL_SUBGROUP_BASE_ADICITY.val
        q_adicity == k_adicity(q, n)
        q_part == U64CheckedPow(U64(q), q_adicity)
        two_adicity == k_adicity(2, n)
        two_part == U64CheckedPow(U64(2), two_adicity)
    IN  IF IsNone(q_part) THEN None
        ELSE IF IsNone(two_part) THEN None
        ELSE IF U64MulOverflows(two_part.val, q_part.val) /\ bld.overflow_checks
             THEN Panic
        ELSE IF \/ n # U64WrappingMul(two_part.val, q_part.val)
                \/ two_adicity > F.TWO_ADICITY
                \/ q_adicity > small_subgroup_base_adicity
             THEN None
        ELSE Some(SquareTimes(
                 pow_times(F.LARGE_SUBGROUP_ROOT_OF_UNITY.val, q,
                           small_subgroup_base_adicity - q_adicity),
                 F.TWO_ADICITY - two_adicity))

\* The two-adic branch squaring once too few.
get_root_of_unity_two_adic_short(n, bld) ==
    LET size == next_power_of_two(n, bld.overflow_checks)
    IN  IF IsPanic(size) THEN Panic
        ELSE IF IsNone(usize_try_from(size.val, bld.usize_bits)) THEN Panic
        ELSE LET log_size_of_group == log2(size.val)
             IN  IF n # size.val \/ log_size_of_group > F.TWO_ADICITY THEN None
                 ELSE Some(SquareTimes(F.TWO_ADIC_ROOT_OF_UNITY,
                                       F.TWO_ADICITY - log_size_of_group - 1))

\* The branch taken otherwise.
get_root_of_unity_two_adic(n, bld) ==
    LET size == next_power_of_two(n, bld.overflow_checks)
    IN  IF IsPanic(size) THEN Panic
        ELSE IF IsNone(usize_try_from(size.val, bld.usize_bits)) THEN Panic
        ELSE LET log_size_of_group == log2(size.val)
             IN  IF n # size.val \/ log_size_of_group > F.TWO_ADICITY THEN None
                 ELSE Some(SquareTimes(F.TWO_ADIC_ROOT_OF_UNITY,
                                       F.TWO_ADICITY - log_size_of_group))

get_root_of_unity(n, bld) ==
    IF IsSome(F.LARGE_SUBGROUP_ROOT_OF_UNITY)
    THEN get_root_of_unity_large(n, bld)
    ELSE get_root_of_unity_two_adic(n, bld)

(***************************************************************************)
(* Calls.  A call is made when no operation is in progress; it records     *)
(* its inputs and, for the operations that are single steps, its result.   *)
(* Return hands the result to the caller, after which another call can be  *)
(* made: no operation retains state beyond one invocation.                 *)
(***************************************************************************)
NoTs ==
    [z |-> 0, w |-> 0, x |-> 0, b |-> 0, v |-> 0, k |-> 0, b2k |-> 0,
     iterations |-> 0]

Ready == pc = "idle"

\* The limb arrays used as exponents.
Exps ==
    UNION {[1 .. l -> IF l = 1 THEN 0 .. MaxWord ELSE 0 .. MaxHighWord] :
           l \in 0 .. MaxWords}

\* [f, f^2, f^4, ..., f^(2^(m-1))]
PowersOfTwo(f, m) == [i \in 1 .. m |-> SquareTimes(f, i - 1)]

\* The table lengths that are tried: up to MaxTable entries from the start of
\* each limb of the exponent.
TableLens ==
    {l * WordBits + m : l \in 0 .. (MaxWords - 1), m \in 0 .. MaxTable}

Tables(f) ==
    {PowersOfTwo(f, m) : m \in TableLens}
        \cup {[i \in 1 .. m |-> f] : m \in 1 .. 2}

CallPow ==
    /\ Ready
    /\ \E base \in Elems, e \in Exps :
        /\ op' = "pow"
        /\ elem' = base
        /\ exp' = e
        /\ ret' = Some(pow(base, e))
    /\ pc' = "done"
    /\ table' = << >> /\ vec' = << >> /\ vec0' = << >> /\ num_cpus' = 0 /\ coeff' = 0
    /\ self' = 0 /\ ops' = NoOps /\ yielded' = << >> /\ iter' = NoIter /\ workers' = << >> /\ order' = << >>
    /\ ts' = NoTs
    /\ UNCHANGED <<F, build>>

CallPowWithTable ==
    /\ Ready
    /\ \E base \in Elems :
        \E t \in Tables(base), e \in Exps :
            /\ op' = "pow_with_table"
            /\ elem' = base
            /\ exp' = e
            /\ table' = t
            /\ ret' = pow_with_table(t, e)
    /\ pc' = "done"
    /\ vec' = << >> /\ vec0' = << >> /\ num_cpus' = 0 /\ coeff' = 0
    /\ self' = 0 /\ ops' = NoOps /\ yielded' = << >> /\ iter' = NoIter /\ workers' = << >> /\ order' = << >>
    /\ ts' = NoTs
    /\ UNCHANGED <<F, build>>

\* The orders asked of get_root_of_unity: the small ones, and orders with one
\* or two set bits at the positions OrderBits, and u64::MAX.
OrderBits == {0, 1, 2, 31, 32, 33, 62, 63}
Orders ==
    {U64(k) : k \in 0 .. MaxOrder}
        \cup {U64Pow2(k) : k \in OrderBits}
        \cup {U64Pow2Sum(jk[1], jk[2]) :
                 jk \in {c \in OrderBits \X OrderBits : c[1] < c[2]}}
        \cup {U64Max}

CallGetRootOfUnity ==
    /\ Ready
    /\ \E n \in Orders :
        /\ order' = n
        /\ ret' = get_root_of_unity(n, build)
    /\ op' = "get_root_of_unity"
    /\ pc' = "done"
    /\ elem' = 0 /\ exp' = << >> /\ table' = << >> /\ vec' = << >> /\ vec0' = << >> /\ num_cpus' = 0 /\ coeff' = 0
    /\ self' = 0 /\ ops' = NoOps /\ yielded' = << >> /\ iter' = NoIter /\ workers' = << >>
    /\ ts' = NoTs
    /\ UNCHANGED <<F, build>>

Diverges == [kind |-> "Diverges", val |-> 0]

\* Field::sqrt: the call, up to the first evaluation of the outer loop
\* condition of the TonelliShanks arm.
CallSqrt ==
    /\ Ready
    /\ \E y \in Elems :
        /\ elem' = y
        /\ IF IsNone(F.SQRT_PRECOMP)
           THEN pc' = "done" /\ ret' = Panic /\ ts' = NoTs
           ELSE IF F.SQRT_PRECOMP.val.variant = "Case3Mod4"
           THEN /\ pc' = "done"
                /\ ret' = sqrt_case3mod4(F.SQRT_PRECOMP.val, y)
                /\ ts' = NoTs
           ELSE IF is_zero(y)
           THEN pc' = "done" /\ ret' = Some(zero) /\ ts' = NoTs
           ELSE /\ pc' = "ts_outer"
                /\ ret' = Unit
                /\ ts' = ts_begin(F.SQRT_PRECOMP.val, y)
    /\ op' = "sqrt"
    /\ exp' = << >> /\ table' = << >> /\ vec' = << >> /\ vec0' = << >> /\ num_cpus' = 0 /\ coeff' = 0
    /\ self' = 0 /\ ops' = NoOps /\ yielded' = << >> /\ iter' = NoIter /\ workers' = << >>
    /\ order' = << >>
    /\ UNCHANGED <<F, build>>

\* while !b.is_one(): the loop ends, or an iteration starts with k = 0 and
\* b2k = b.  ts.iterations counts the iterations started.
TsOuter ==
    /\ pc = "ts_outer"
    /\ IF is_one(ts.b)
       THEN /\ pc' = "done"
            /\ ret' = ts_finish(ts, elem, build)
            /\ ts' = ts
       ELSE /\ pc' = "ts_inner"
            /\ ret' = ret
            /\ ts' = [ts EXCEPT !.k = 0, !.b2k = ts.b,
                                !.iterations = ts.iterations + 1]
    /\ UNCHANGED <<F, op, elem, exp, table, vec, vec0, num_cpus, coeff, order, build,
                 self, ops, yielded, workers, iter>>

\* while !b2k.is_one(): one squaring of b2k, or the rest of the outer
\* iteration.  v - k on usize overflows when k > v: a panic under overflow
\* checks, and otherwise a loop of about 2^64 squarings.
TsInner ==
    /\ pc = "ts_inner"
    /\ IF ~is_one(ts.b2k)
       THEN /\ pc' = "ts_inner"
            /\ ret' = ret
            /\ ts' = [ts EXCEPT !.b2k = square(ts.b2k), !.k = ts.k + 1]
       ELSE IF ts.k = F.SQRT_PRECOMP.val.two_adicity
       THEN pc' = "done" /\ ret' = None /\ ts' = ts
       ELSE IF ts.k > ts.v
       THEN /\ pc' = "done"
            /\ ret' = IF build.overflow_checks THEN Panic ELSE Diverges
            /\ ts' = ts
       ELSE /\ pc' = "ts_outer"
            /\ ret' = ret
            /\ ts' = ts_update(ts)
    /\ UNCHANGED <<F, op, elem, exp, table, vec, vec0, num_cpus, coeff, order, build,
                 self, ops, yielded, workers, iter>>

Vecs == UNION {[1 .. l -> Elems] : l \in 0 .. MaxVecLen}

\* rayon::current_num_threads(), read by the parallel build only.
Threads == IF build.parallel THEN 1 .. MaxThreads ELSE {0}

CallBatchInversionAndMul ==
    /\ Ready
    /\ \E c \in Elems, n \in Threads, v \in Vecs :
        LET r == batch_inversion_and_mul(v, c, build, n)
        IN  /\ vec0' = v
            /\ coeff' = c
            /\ num_cpus' = n
            /\ vec' = IF IsPanic(r) THEN v ELSE r.val
            /\ ret' = IF IsPanic(r) THEN Panic ELSE Unit
    /\ op' = "batch_inversion_and_mul"
    /\ pc' = "done"
    /\ elem' = 0 /\ exp' = << >> /\ table' = << >> /\ order' = << >>
    /\ self' = 0 /\ ops' = NoOps /\ yielded' = << >> /\ iter' = NoIter /\ workers' = << >>
    /\ UNCHANGED <<F, build, ts>>

CallBatchInversion ==
    /\ Ready
    /\ \E n \in Threads, v \in Vecs :
        LET r == batch_inversion(v, build, n)
        IN  /\ vec0' = v
            /\ coeff' = one
            /\ num_cpus' = n
            /\ vec' = IF IsPanic(r) THEN v ELSE r.val
            /\ ret' = IF IsPanic(r) THEN Panic ELSE Unit
    /\ op' = "batch_inversion"
    /\ pc' = "done"
    /\ elem' = 0 /\ exp' = << >> /\ table' = << >> /\ order' = << >>
    /\ self' = 0 /\ ops' = NoOps /\ yielded' = << >> /\ iter' = NoIter /\ workers' = << >>
    /\ UNCHANGED <<F, build, ts>>

\* cyclotomic_exp: result = *self; result.cyclotomic_exp_in_place(e); result.
CallCyclotomicExp ==
    /\ Ready
    /\ \E base \in Elems, e \in Exps :
        LET r == cyclotomic_exp_in_place(base, e, F.INVERSE_IS_FAST)
        IN  /\ elem' = base
            /\ exp' = e
            /\ self' = r.f
            /\ ops' = r.ops
            /\ ret' = IF r.panicked THEN Panic ELSE Some(r.f)
    /\ op' = "cyclotomic_exp"
    /\ pc' = "done"
    /\ table' = << >> /\ vec' = << >> /\ vec0' = << >> /\ num_cpus' = 0 /\ coeff' = 0
    /\ order' = << >> /\ yielded' = << >> /\ iter' = NoIter /\ workers' = << >>
    /\ UNCHANGED <<F, build, ts>>

\* cyclotomic_exp_in_place: elem is the element before the call and self the
\* element after it.
CallCyclotomicExpInPlace ==
    /\ Ready
    /\ \E base \in Elems, e \in Exps :
        LET r == cyclotomic_exp_in_place(base, e, F.INVERSE_IS_FAST)
        IN  /\ elem' = base
            /\ exp' = e
            /\ self' = r.f
            /\ ops' = r.ops
            /\ ret' = IF r.panicked THEN Panic ELSE Unit
    /\ op' = "cyclotomic_exp_in_place"
    /\ pc' = "done"
    /\ table' = << >> /\ vec' = << >> /\ vec0' = << >> /\ num_cpus' = 0 /\ coeff' = 0
    /\ order' = << >> /\ yielded' = << >> /\ iter' = NoIter /\ workers' = << >>
    /\ UNCHANGED <<F, build, ts>>

StepVecs == UNION {[1 .. l -> Elems] : l \in 0 .. MaxStepVecLen}
StepThreads == IF build.parallel THEN 1 .. MaxStepThreads ELSE {0}

\* batch_inversion_and_mul is entered: the workers are set up.
StartBatchInversionAndMul ==
    /\ Ready
    /\ \E c \in Elems, n \in StepThreads, v \in StepVecs :
        /\ vec0' = v
        /\ vec' = v
        /\ coeff' = c
        /\ num_cpus' = n
        /\ workers' = new_workers(Len(v), build, n)
    /\ op' = "batch_inversion_and_mul"
    /\ pc' = "running"
    /\ ret' = Unit
    /\ elem' = 0 /\ exp' = << >> /\ table' = << >> /\ order' = << >>
    /\ self' = 0 /\ ops' = NoOps /\ yielded' = << >> /\ iter' = NoIter
    /\ UNCHANGED <<F, build, ts>>

\* A worker that has not finished takes its next step.
WorkerStep ==
    /\ pc = "running"
    /\ \E j \in 1 .. Len(workers) :
        /\ workers[j].pc \in {"first", "second"}
        /\ LET r == worker_step(workers[j], vec, coeff)
           IN  /\ workers' = [workers EXCEPT ![j] = r.w]
               /\ vec' = r.v
               /\ ops' = [ops EXCEPT
                            !.inversions = ops.inversions
                                + (r.w.inversions - workers[j].inversions),
                            !.inverted = ops.inverted
                                \o SubSeq(r.w.inverted,
                                          Len(workers[j].inverted) + 1,
                                          Len(r.w.inverted))]
    /\ UNCHANGED <<F, op, pc, elem, exp, table, vec0, num_cpus, coeff, order, build,
                   ret, ts, self, yielded, iter>>

\* The call returns once every worker has ended; the panic of a worker is
\* passed on to the caller.
JoinWorkers ==
    /\ pc = "running"
    /\ \A j \in 1 .. Len(workers) : workers[j].pc \in {"done", "panicked"}
    /\ pc' = "done"
    /\ ret' = IF \E j \in 1 .. Len(workers) : workers[j].pc = "panicked"
              THEN Panic ELSE Unit
    /\ UNCHANGED <<F, op, elem, exp, table, vec, vec0, num_cpus, coeff, order, build,
                   ts, self, ops, yielded, workers, iter>>

\* The limb arrays iterated over: the exponents, and [0, 1 << 10] of the
\* test bit_iterator_le.
TestLimb == 1024
BitArrays == Exps \cup {<< 0, TestLimb >>}

\* One of the four constructors of a bit iterator is called.
NewBitIterator ==
    /\ Ready
    /\ \E s \in BitArrays :
        /\ exp' = s
        /\ \E c \in {"BitIteratorBE::new", "BitIteratorBE::without_leading_zeros",
                      "BitIteratorLE::new", "BitIteratorLE::without_trailing_zeros"} :
            /\ op' = c
            /\ iter' = IF c = "BitIteratorBE::new" THEN be_new(s)
                       ELSE IF c = "BitIteratorBE::without_leading_zeros"
                       THEN be_without_leading_zeros(s)
                       ELSE IF c = "BitIteratorLE::new" THEN le_new(s)
                       ELSE le_without_trailing_zeros(s)
    /\ pc' = "iterating"
    /\ ret' = Unit
    /\ yielded' = << >>
    /\ elem' = 0 /\ table' = << >> /\ vec' = << >> /\ vec0' = << >> /\ num_cpus' = 0
    /\ coeff' = 0 /\ order' = << >> /\ self' = 0 /\ ops' = NoOps /\ workers' = << >>
    /\ UNCHANGED <<F, build, ts>>

\* next() is called: a bit is yielded, or None ends the iteration.
NextBit ==
    /\ pc = "iterating"
    /\ LET r == iter_next(iter)
       IN  /\ iter' = r.it
           /\ IF IsSome(r.item)
              THEN yielded' = Append(yielded, r.item.val) /\ pc' = pc /\ ret' = ret
              ELSE yielded' = yielded /\ pc' = "done" /\ ret' = None
    /\ UNCHANGED <<F, op, elem, exp, table, vec, vec0, num_cpus, coeff, order, build,
                   ts, self, ops, workers>>

InitCall ==
    /\ op = "none" /\ pc = "idle"
    /\ elem = 0 /\ exp = << >> /\ table = << >> /\ vec = << >> /\ vec0 = << >> /\ num_cpus = 0 /\ coeff = 0
    /\ self = 0 /\ ops = NoOps /\ yielded = << >> /\ iter = NoIter /\ workers = << >>
    /\ order = << >> /\ ret = Unit /\ ts = NoTs

Return ==
    /\ pc = "done"
    /\ op' = "none" /\ pc' = "idle"
    /\ elem' = 0 /\ exp' = << >> /\ table' = << >> /\ vec' = << >> /\ vec0' = << >> /\ num_cpus' = 0 /\ coeff' = 0
    /\ self' = 0 /\ ops' = NoOps /\ yielded' = << >> /\ iter' = NoIter /\ workers' = << >>
    /\ order' = << >> /\ ret' = Unit /\ ts' = NoTs
    /\ UNCHANGED <<F, build>>

InitPow == F \in PlainFields /\ build = ReleaseBuild /\ InitCall
\* Field types for get_root_of_unity: without subgroup constants, with a
\* well-formed small subgroup, and with malformed combinations.
Subgroups(p) ==
    {NoSubgroup}
        \cup {LargeSubgroup(p, qk[1], qk[2]) : qk \in SmallSubgroups(p)}
        \cup MalformedSubgroups(p)
RootFields ==
    UNION {{FieldType(p, Some(TonelliShanks(p)), sg) : sg \in Subgroups(p)} :
           p \in Moduli}
RootBuilds ==
    {bld \in Builds : bld.debug_assertions = bld.overflow_checks /\ ~bld.parallel}

InitRoot == F \in RootFields /\ build \in RootBuilds /\ InitCall
NextRoot == CallGetRootOfUnity \/ Return
SpecRoot == InitRoot /\ [][NextRoot]_vars

\* Field types for sqrt: every SQRT_PRECOMP a modulus admits.
SqrtFields ==
    UNION {{FieldType(p, sp, NoSubgroup) : sp \in SqrtPrecomps(p)} : p \in Moduli}
SqrtBuilds == {ReleaseBuild, DebugBuild}

InitSqrt == F \in SqrtFields /\ build \in SqrtBuilds /\ InitCall
NextSqrt == CallSqrt \/ TsOuter \/ TsInner \/ Return
SpecSqrt == InitSqrt /\ [][NextSqrt]_vars

\* sqrt on a thread that keeps running: a loop that can take a step does.
SpecSqrtFair == SpecSqrt /\ WF_vars(TsOuter) /\ WF_vars(TsInner)

\* Fields and builds for batch inversion: with and without the feature
\* "parallel".
BatchFields ==
    {FieldType(p, Some(TonelliShanks(p)), NoSubgroup) :
        p \in {q \in Moduli : q <= MaxBatchModulus}}
BatchBuilds == {[ReleaseBuild EXCEPT !.parallel = par] : par \in BOOLEAN}

InitBatch == F \in BatchFields /\ build \in BatchBuilds /\ InitCall
NextBatch == CallBatchInversionAndMul \/ CallBatchInversion \/ Return
SpecBatch == InitBatch /\ [][NextBatch]_vars

\* Fields with a cyclotomic subgroup, of either INVERSE_IS_FAST.
CycloFields ==
    {[f EXCEPT !.INVERSE_IS_FAST = fast] : f \in PlainFields, fast \in BOOLEAN}

InitCyclo == F \in CycloFields /\ build = ReleaseBuild /\ InitCall
NextCyclo == CallCyclotomicExp \/ CallCyclotomicExpInPlace \/ Return
SpecCyclo == InitCyclo /\ [][NextCyclo]_vars

\* Batch inversion followed step by step, over the field of modulus 3.
StepFields ==
    {FieldType(p, Some(TonelliShanks(p)), NoSubgroup) : p \in {3}}

InitSteps == F \in StepFields /\ build \in BatchBuilds /\ InitCall
NextSteps == StartBatchInversionAndMul \/ WorkerStep \/ JoinWorkers \/ Return
SpecSteps == InitSteps /\ [][NextSteps]_vars

InitBits == F \in StepFields /\ build = ReleaseBuild /\ InitCall
NextBits == NewBitIterator \/ NextBit \/ Return
SpecBits == InitBits /\ [][NextBits]_vars

NextPow == CallPow \/ CallPowWithTable \/ Return
SpecPow == InitPow /\ [][NextPow]_vars

(***************************************************************************)
(* Properties of pow and pow_with_table.                                   *)
(***************************************************************************)
\* base raised to the integer whose little-endian 64-bit limbs are e: the
\* product over the limbs i (0-based) of (base^e[i])^(2^(64 i)).
RECURSIVE PowerOfLimbs(_, _, _)
PowerOfLimbs(base, e, i) ==
    IF i > Len(e) THEN 1
    ELSE mul(SquareTimes(NaivePow(base, e[i]), WordBits * (i - 1)),
             PowerOfLimbs(base, e, i + 1))

\* The bit length of the integer encoded by e: the index of its highest set
\* bit plus one, 0 when no bit is set.
BitLength(e) ==
    LET set == {n \in 0 .. (WordBits * Len(e) - 1) : BitAt(e, n)}
    IN  IF set = {} THEN 0
        ELSE 1 + (CHOOSE n \in set : \A m \in set : m <= n)

Returned(name) == pc = "done" /\ op = name

\* t is the table [x, x^2, x^4, ..., x^(2^(m-1))] for its length m.
IsPowersOfTwoTable(t, x) ==
    \A i \in 1 .. Len(t) : t[i] = IF i = 1 THEN x ELSE square(t[i - 1])

\* C4: pow(base, exponent) is base raised to the integer encoded by the
\* little-endian 64-bit limbs of the exponent; it is 1 for an empty or
\* all-zero exponent (also for base zero), and pow(x, [p-1]) is 1 for every
\* nonzero x of the prime field of order p.
C4_PowIsPower ==
    Returned("pow") =>
        /\ ret = Some(PowerOfLimbs(elem, exp, 1))
        /\ (\A i \in 1 .. Len(exp) : exp[i] = 0) => ret = Some(1)
        /\ (exp = << F.p - 1 >> /\ elem # 0) => ret = Some(1)

C4_Witness ==
    /\ Returned("pow")
    /\ Len(exp) = 2 /\ exp[1] # 0 /\ exp[2] # 0
    /\ elem > 1 /\ ret.kind = "Some" /\ ret.val > 1

\* C5: for the table [x, x^2, x^4, ..., x^(2^(m-1))] and an exponent e of bit
\* length at most m, pow_with_table returns a present value equal to pow(x, e).
C5_TableAgreesWithPow ==
    (/\ Returned("pow_with_table")
     /\ IsPowersOfTwoTable(table, elem)
     /\ BitLength(exp) <= Len(table))
        => ret = Some(pow(elem, exp))

C5_Witness ==
    /\ Returned("pow_with_table")
    /\ IsPowersOfTwoTable(table, elem)
    /\ BitLength(exp) = Len(table) /\ Len(table) > WordBits
    /\ exp[1] > 1
    /\ elem > 1 /\ ret.kind = "Some" /\ ret.val > 1

\* C6: pow_with_table returns absent exactly when the bit length of the
\* exponent exceeds the number of entries of the table; a zero exponent with
\* an empty table yields the multiplicative identity.
C6_AbsentIffTableShort ==
    Returned("pow_with_table") =>
        /\ IsNone(ret) <=> (BitLength(exp) > Len(table))
        /\ ~IsPanic(ret)
        /\ (BitLength(exp) = 0 /\ table = << >>) => ret = Some(one)

C6_Witness ==
    /\ Returned("pow_with_table")
    /\ IsNone(ret)
    /\ Len(table) = WordBits /\ BitLength(exp) = WordBits + 1

(***************************************************************************)
(* Properties of the bit iterators.                                        *)
(***************************************************************************)
\* Bit (k mod 64) of limb floor(k / 64) of s.
BitOf(s, k) == Shr(s[(k \div WordBits) + 1], k % WordBits) % 2 = 1

\* The sequence yielded is true at the 0-based index t and false elsewhere.
TrueExactlyAt(t) == \A k \in 0 .. (Len(yielded) - 1) : yielded[k + 1] = (k = t)

\* C15 as stated: for the limbs [0, 1 << 10] the 128 booleans of
\* BitIteratorBE::new are true at exactly index 74, counted from 0 from the
\* most significant end.
C15_BigEndianTrueAt74 ==
    (Returned("BitIteratorBE::new") /\ exp = << 0, TestLimb >>)
        => Len(yielded) = 2 * WordBits /\ TrueExactlyAt(74)

\* C15 amended: for the limbs [0, 1 << 10] the 128 booleans of
\* BitIteratorBE::new are true at exactly index 53 = 127 - 74, counted from
\* 0 from the most significant end.
C15_BigEndianTrueAt53 ==
    (Returned("BitIteratorBE::new") /\ exp = << 0, TestLimb >>)
        => Len(yielded) = 2 * WordBits /\ TrueExactlyAt(2 * WordBits - 1 - 74)

C15_Witness ==
    /\ Returned("BitIteratorBE::new") /\ exp = << 0, TestLimb >>
    /\ Len(yielded) = 128 /\ yielded[54] /\ ~yielded[75]

\* C16: BitIteratorLE::new(s) yields exactly 64 * len(s) booleans and then
\* ends, the k-th (from 0) being bit (k mod 64) of limb floor(k / 64); for
\* the limbs [0, 1 << 10] it is true at exactly index 74.
C16_LittleEndianBits ==
    /\ (pc = "iterating" /\ op = "BitIteratorLE::new")
        => Len(yielded) <= WordBits * Len(exp)
    /\ Returned("BitIteratorLE::new")
        => /\ Len(yielded) = WordBits * Len(exp)
           /\ \A k \in 0 .. (Len(yielded) - 1) : yielded[k + 1] = BitOf(exp, k)
           /\ exp = << 0, TestLimb >> => TrueExactlyAt(74)

C16_Witness ==
    /\ Returned("BitIteratorLE::new") /\ exp = << 0, TestLimb >>
    /\ Len(yielded) = 128 /\ yielded[75] /\ ~yielded[54]

\* C17: without_trailing_zeros(s) yields exactly L booleans, L the bit length
\* of s (0 for an all-zero or empty s): the first L booleans of the
\* unskipped little-endian sequence, so that a nonempty result ends with
\* true; without_leading_zeros(s) yields the same L booleans in reverse
\* order.
C17_SkippingVariants ==
    LET L == BitLength(exp)
    IN  /\ Returned("BitIteratorLE::without_trailing_zeros")
            => /\ Len(yielded) = L
               /\ \A k \in 0 .. (L - 1) : yielded[k + 1] = BitOf(exp, k)
               /\ L > 0 => yielded[L]
        /\ Returned("BitIteratorBE::without_leading_zeros")
            => /\ Len(yielded) = L
               /\ \A k \in 0 .. (L - 1) : yielded[L - k] = BitOf(exp, k)
               /\ L > 0 => yielded[1]

C17_Witness ==
    /\ Returned("BitIteratorLE::without_trailing_zeros")
    /\ exp = << 2, 1 >>
    /\ Len(yielded) = WordBits + 1
    /\ ~yielded[1] /\ yielded[2] /\ yielded[WordBits + 1]

(***************************************************************************)
(* Properties of cyclotomic_exp.                                           *)
(***************************************************************************)
ReturnedCyclotomicExp ==
    Returned("cyclotomic_exp") \/ Returned("cyclotomic_exp_in_place")

\* C11: cyclotomic_exp_in_place on a zero element is a no-op for every
\* exponent and either INVERSE_IS_FAST: the element is still zero (and not
\* the identity that pow(0, 0) returns), cyclotomic_exp returns zero, and no
\* inversion, squaring or multiplication is performed.
C11_ZeroIsNoOp ==
    (ReturnedCyclotomicExp /\ elem = 0)
        => /\ self = 0 /\ self # one
           /\ ~IsPanic(ret)
           /\ Returned("cyclotomic_exp") => ret = Some(0)
           /\ ops.inversions = 0 /\ ops.squarings = 0 /\ ops.multiplications = 0

C11_Witness ==
    /\ Returned("cyclotomic_exp")
    /\ elem = 0 /\ exp = << 0 >> /\ F.INVERSE_IS_FAST
    /\ pow(elem, exp) = 1
    /\ ret = Some(0) /\ ops = NoOps

\* C12: for every nonzero base and every exponent, cyclotomic_exp with
\* INVERSE_IS_FAST set (non-adjacent form, most significant digit first,
\* the inverse on -1) equals cyclotomic_exp with it unset (plain bits), and
\* both equal pow(base, e); for e = 0 both return the identity.
C12_NafAgreesWithBits ==
    (ReturnedCyclotomicExp /\ elem # 0)
        => /\ ~IsPanic(ret)
           /\ self = pow(elem, exp)
           /\ self = cyclotomic_exp_in_place(elem, exp, ~F.INVERSE_IS_FAST).f
           /\ (\A i \in 1 .. Len(exp) : exp[i] = 0) => self = one

C12_Witness ==
    /\ Returned("cyclotomic_exp")
    /\ F.INVERSE_IS_FAST /\ F.p = 7 /\ elem = 3 /\ exp = << 7 >>
    /\ find_naf(exp) = << -1, 0, 0, 1 >>
    /\ ops.inversions = 1 /\ ops.multiplications = 2 /\ ops.squarings = 3
    /\ ret = Some(3)

(***************************************************************************)
(* Properties of batch inversion.                                          *)
(***************************************************************************)
\* C1: after batch_inversion_and_mul(v, c) every index whose original entry
\* was nonzero holds c * inverse(original entry) and every index whose
\* original entry was zero still holds zero, for every vector (the empty one
\* included) and every c; batch_inversion is the case c = 1, so that
\* result[i] * original[i] = 1 for every nonzero original[i].
C1_BatchInversionCorrect ==
    (Returned("batch_inversion_and_mul") \/ Returned("batch_inversion"))
        => /\ ~IsPanic(ret)
           /\ Len(vec) = Len(vec0)
           /\ \A i \in 1 .. Len(vec0) :
                IF vec0[i] = 0 THEN vec[i] = 0
                ELSE \E a \in Elems :
                        /\ (a * vec0[i]) % F.p = 1
                        /\ vec[i] = (coeff * a) % F.p
           /\ Returned("batch_inversion")
                => \A i \in 1 .. Len(vec0) :
                        vec0[i] # 0 => (vec[i] * vec0[i]) % F.p = 1

C1_Witness ==
    /\ Returned("batch_inversion_and_mul")
    /\ F.p = 5 /\ coeff = 2
    /\ vec0 = <<2, 0, 3, 4>>
    /\ vec = <<1, 0, 4, 3>>

\* C14: for every vector, every coefficient and every positive chunk size
\* (among them max(len / threads, 1) for every number of threads >= 1) the
\* serial algorithm run on each contiguous chunk leaves the vector in the
\* state in which one run of the serial algorithm on the whole vector
\* leaves it.
C14_ChunkedIsSerial ==
    Returned("batch_inversion_and_mul")
        => LET serial == serial_batch_inversion_and_mul(vec0, coeff)
           IN  /\ IsSome(serial)
               /\ vec = serial.val
               /\ \A size \in 1 .. (Len(vec0) + 1) :
                    LET chunked == chunked_batch_inversion_and_mul(vec0, coeff, size)
                    IN  IsSome(chunked) /\ chunked.val = serial.val
               /\ \A n \in 1 .. (Len(vec0) + 1) :
                    Max(Len(vec0) \div n, 1) \in 1 .. (Len(vec0) + 1)
               /\ build.parallel
                    => parallel_batch_inversion_and_mul(vec0, coeff, num_cpus)
                        = serial

C14_Witness ==
    /\ Returned("batch_inversion_and_mul")
    /\ build.parallel /\ num_cpus = 2
    /\ F.p = 5 /\ coeff = 3 /\ vec0 = <<2, 0, 4, 3>>
    /\ vec = <<4, 0, 2, 1>>
    /\ chunked_batch_inversion_and_mul(vec0, coeff, 3) = Some(vec)

\* C13: a call of the serial batch inversion performs exactly one field
\* inversion, whatever the length of the vector and the number of its zero
\* entries; the parallel variant performs exactly one for each chunk.
C13_OneInversion ==
    Returned("batch_inversion_and_mul")
        => /\ \A j \in 1 .. Len(workers) : workers[j].inversions = 1
           /\ ops.inversions = Len(workers)
           /\ ~build.parallel => ops.inversions = 1
           /\ build.parallel
                => Len(workers) =
                     Len(par_chunks_mut(Len(vec0),
                                        Max(Len(vec0) \div num_cpus, 1)))

C13_Witness ==
    /\ Returned("batch_inversion_and_mul")
    /\ ~build.parallel
    /\ vec0 = <<0, 2, 2>> /\ coeff = 2
    /\ vec = <<0, 1, 1>>
    /\ ops.inversions = 1 /\ workers[1].writes = {2, 3}

\* The entries of v that the worker w has read or written so far.
Touched(w) == w.reads \cup w.writes

\* C18: in the parallel batch inversion the chunks, of size
\* max(len / workers, 1) but for a shorter last one, partition the indices of
\* the vector: they are disjoint, contiguous and cover it.  Under every
\* interleaving a worker reads and writes entries of its own chunk only, so
\* no entry is touched by two workers; the final vector is the one the
\* serial code computes, whatever the interleaving; and the call returns
\* only when every worker has ended.
C18_WorkersAreIndependent ==
    (op = "batch_inversion_and_mul" /\ pc \in {"running", "done"} /\ build.parallel)
        => LET n == Len(workers)
               size == Max(Len(vec0) \div num_cpus, 1)
           IN  /\ n = 0 <=> vec0 = << >>
               /\ n > 0 => workers[1].lo = 1 /\ workers[n].hi = Len(vec0)
               /\ \A j \in 1 .. n :
                    /\ workers[j].lo <= workers[j].hi
                    /\ j < n => /\ workers[j].hi - workers[j].lo + 1 = size
                                /\ workers[j + 1].lo = workers[j].hi + 1
                    /\ workers[j].hi - workers[j].lo + 1 <= size
                    /\ Touched(workers[j]) \subseteq workers[j].lo .. workers[j].hi
               /\ \A j, k \in 1 .. n :
                    j # k => Touched(workers[j]) \cap Touched(workers[k]) = {}
               /\ pc = "done"
                    => /\ \A j \in 1 .. n : workers[j].pc = "done"
                       /\ ret = Unit
                       /\ Some(vec) = serial_batch_inversion_and_mul(vec0, coeff)

\* Two workers are both in their second pass, each having written to its
\* chunk, and a third has not started.
C18_Witness ==
    /\ op = "batch_inversion_and_mul" /\ pc = "running" /\ build.parallel
    /\ Len(vec0) = 3 /\ num_cpus = 2 /\ Len(workers) = 3
    /\ workers[1].pc = "second" /\ workers[1].writes = {1}
    /\ workers[3].pc = "second" /\ workers[3].writes = {3}
    /\ workers[2].pc = "first" /\ workers[2].reads = {}

\* C19: the value handed to the inversion is never zero, for an empty
\* vector, an all-zero one and a mix of zero and nonzero entries alike, so
\* that the unwrap of the inverse never fails.
C19_InversionOfNonzero ==
    (op = "batch_inversion_and_mul" /\ pc \in {"running", "done"})
        => /\ \A k \in 1 .. Len(ops.inverted) : ~is_zero(ops.inverted[k])
           /\ \A j \in 1 .. Len(workers) :
                /\ workers[j].pc # "panicked"
                /\ \A k \in 1 .. Len(workers[j].inverted) :
                     IsSome(inverse(workers[j].inverted[k]))
                /\ workers[j].pc = "first" => ~is_zero(workers[j].tmp)
           /\ ret # Panic

\* The inversion has happened on a vector of zero and nonzero entries.
C19_Witness ==
    /\ Returned("batch_inversion_and_mul")
    /\ ~build.parallel
    /\ vec0 = <<0, 2, 0>> /\ vec = <<0, 2, 0>> /\ coeff = 1
    /\ ops.inverted = <<2>> /\ ret = Unit

(***************************************************************************)
(* Properties of sqrt.                                                     *)
(***************************************************************************)
IsSquare(y) == \E r \in Elems : (r * r) % F.p = y

HasVariant(name) ==
    IsSome(F.SQRT_PRECOMP) /\ F.SQRT_PRECOMP.val.variant = name

\* zero for zero; a root for a nonzero square; absent for a non-residue.
SqrtContract ==
    IF elem = 0 THEN ret = Some(0)
    ELSE IF IsSquare(elem) THEN IsSome(ret) /\ (ret.val * ret.val) % F.p = elem
    ELSE IsNone(ret)

\* C2: with a correctly built TonelliShanks descriptor, sqrt(y) returns zero
\* when y is zero, some r with r * r = y when y is a nonzero square, and
\* absent when y is a non-residue.
C2_TonelliShanksSqrt ==
    (Returned("sqrt") /\ HasVariant("TonelliShanks")) => SqrtContract

C2_Witness ==
    /\ Returned("sqrt") /\ HasVariant("TonelliShanks")
    /\ F.p = 17 /\ elem = 2
    /\ IsSome(ret) /\ (ret.val * ret.val) % 17 = 2

\* C3: on a prime field with p = 3 (mod 4) the Case3Mod4 branch and the
\* TonelliShanks branch behave identically on every input: zero for zero, a
\* value whose square is the input for a residue, absent for a non-residue.
C3_BranchesAgree ==
    (Returned("sqrt") /\ F.p % 4 = 3 /\ IsSome(F.SQRT_PRECOMP))
        => /\ SqrtContract
           /\ ret = sqrt_case3mod4(Case3Mod4(F.p), elem)

C3_Witness ==
    /\ Returned("sqrt") /\ HasVariant("TonelliShanks")
    /\ F.p = 19 /\ elem = 5
    /\ ret = sqrt_case3mod4(Case3Mod4(F.p), elem)
    /\ IsSome(ret) /\ (ret.val * ret.val) % 19 = 5

\* C20: in the TonelliShanks arm with a correctly built descriptor,
\* x^2 = elem * b holds at every evaluation of the condition of the outer
\* loop, for every nonzero input.  So when the loop is left with b = 1 the
\* final check x^2 = elem succeeds: absent is returned by the
\* k = two_adicity branch only, and the debug assertion is never violated.
C20_OuterLoopInvariant ==
    (op = "sqrt" /\ HasVariant("TonelliShanks"))
        => /\ pc = "ts_outer"
                => /\ ~is_zero(elem)
                   /\ square(ts.x) = mul(elem, ts.b)
                   /\ is_one(ts.b) => ts_finish(ts, elem, build) = Some(ts.x)
           /\ pc = "done"
                => /\ ~IsPanic(ret)
                   /\ IsNone(ret)
                        => /\ ~is_one(ts.b)
                           /\ is_one(ts.b2k)
                           /\ ts.k = F.SQRT_PRECOMP.val.two_adicity

\* The condition of the outer loop is evaluated after an iteration that has
\* changed x, b and v.
C20_Witness ==
    /\ op = "sqrt" /\ HasVariant("TonelliShanks") /\ pc = "ts_outer"
    /\ F.p = 17 /\ elem = 2 /\ build = DebugBuild
    /\ ts.v = 3 /\ ts.x # 2 /\ ts.b # 2
    /\ square(ts.x) = mul(elem, ts.b)

\* The TonelliShanks arm is inside its loops.
InTonelliShanks ==
    op = "sqrt" /\ HasVariant("TonelliShanks") /\ pc \in {"ts_outer", "ts_inner"}

\* The inner search: b2k = b^(2^k) with k <= two_adicity, no smaller power
\* of b being one; and once it has stopped short of two_adicity, 1 <= k < v.
InnerSearch ==
    (InTonelliShanks /\ pc = "ts_inner")
        => /\ ts.k <= F.SQRT_PRECOMP.val.two_adicity
           /\ ts.b2k = SquareTimes(ts.b, ts.k)
           /\ \A i \in 0 .. (ts.k - 1) : ~is_one(SquareTimes(ts.b, i))
           /\ (is_one(ts.b2k) /\ ts.k # F.SQRT_PRECOMP.val.two_adicity)
                => 1 <= ts.k /\ ts.k < ts.v /\ ts.v - ts.k >= 1

\* C21: with a correctly built descriptor the TonelliShanks arm ends for
\* every input.  The inner search for the smallest k with b^(2^k) = 1 stops
\* with k <= two_adicity; in an outer iteration that does not return absent
\* k < v, so that j = v - k >= 1 does not underflow; v gets strictly smaller
\* from one outer iteration to the next; the outer loop runs at most
\* two_adicity times; and the call returns.
C21_TonelliShanksTerminates ==
    /\ [](InnerSearch)
    /\ []((op = "sqrt" /\ HasVariant("TonelliShanks"))
            => /\ ts.iterations <= F.SQRT_PRECOMP.val.two_adicity
               /\ ts.v <= F.SQRT_PRECOMP.val.two_adicity
               /\ pc = "done" => ret # Diverges /\ ~IsPanic(ret))
    /\ [][(InTonelliShanks /\ pc = "ts_inner" /\ pc' = "ts_outer")
            => ts'.v = ts.k /\ ts'.v < ts.v]_vars
    /\ InTonelliShanks ~> Returned("sqrt")

\* The call has returned a root after three iterations of the outer loop.
C21_Witness ==
    /\ Returned("sqrt") /\ HasVariant("TonelliShanks")
    /\ F.p = 17
    /\ ts.iterations = 3 /\ ts.v = 1
    /\ IsSome(ret) /\ square(ret.val) = elem

(***************************************************************************)
(* Properties of get_root_of_unity.                                        *)
(***************************************************************************)
\* w has multiplicative order exactly m: w^m = 1 and no smaller positive
\* power of w is 1.
HasOrder(w, m) ==
    /\ NaivePow(w, m) = 1
    /\ \A j \in 1 .. (m - 1) : NaivePow(w, j) # 1

NoLargeSubgroup == IsNone(F.LARGE_SUBGROUP_ROOT_OF_UNITY)

\* The order asked is 2^k for some k in 0..TWO_ADICITY.
OrderIsValidPowerOfTwo ==
    \E k \in 0 .. F.TWO_ADICITY : order = U64(IntPow(2, k))

C8_AbsentIffNotValidPowerOfTwo ==
    (Returned("get_root_of_unity") /\ NoLargeSubgroup)
        => IF OrderIsValidPowerOfTwo THEN IsSome(ret) ELSE IsNone(ret)

\* The order asked is 2^i * q^j with i <= TWO_ADICITY and j <= K.
OrderIsValidMixed ==
    \E i \in 0 .. F.TWO_ADICITY, j \in 0 .. F.SMALL_SUBGROUP_BASE_ADICITY.val :
        order = U64(IntPow(2, i) * IntPow(F.SMALL_SUBGROUP_BASE.val, j))

\* The three subgroup constants are set and LARGE_SUBGROUP_ROOT_OF_UNITY has
\* order 2^TWO_ADICITY * q^K.
WellFormedLargeSubgroup ==
    /\ IsSome(F.LARGE_SUBGROUP_ROOT_OF_UNITY)
    /\ IsSome(F.SMALL_SUBGROUP_BASE)
    /\ IsSome(F.SMALL_SUBGROUP_BASE_ADICITY)
    /\ LET full == IntPow(2, F.TWO_ADICITY)
                      * IntPow(F.SMALL_SUBGROUP_BASE.val,
                               F.SMALL_SUBGROUP_BASE_ADICITY.val)
       IN  /\ full <= F.p - 1
           /\ HasOrder(F.LARGE_SUBGROUP_ROOT_OF_UNITY.val, full)

\* C9: with a large-subgroup configuration (base q, adicity bound K, a root
\* of order 2^TWO_ADICITY * q^K) get_root_of_unity(n) returns absent unless
\* n = 2^i * q^j with i <= TWO_ADICITY and j <= K, and for every such n an
\* element of multiplicative order exactly n.
C9_LargeSubgroupRoot ==
    (Returned("get_root_of_unity") /\ WellFormedLargeSubgroup)
        => IF OrderIsValidMixed
           THEN IsSome(ret) /\ HasOrder(ret.val, U64Small(order))
           ELSE IsNone(ret)

C9_Witness ==
    /\ Returned("get_root_of_unity")
    /\ WellFormedLargeSubgroup
    /\ F.SMALL_SUBGROUP_BASE_ADICITY.val = 2
    /\ order = U64(3)
    /\ IsSome(ret) /\ HasOrder(ret.val, 3)

\* C10: sqrt, pow_with_table and get_root_of_unity complete with a value or
\* absent for every input and every subgroup configuration; none aborts.
C10_NeverAborts ==
    (pc = "done" /\ op \in {"sqrt", "pow_with_table", "get_root_of_unity"})
        => ~IsPanic(ret)

====
